---- MODULE Spec2Model ----
(***************************************************************************)
(* Model of input/server.c (BlueZ HID input server): the two L2CAP         *)
(* listeners (control and interrupt PSM), the connection callback          *)
(* connect_event_cb, the two-tier authorization of authorize_device with   *)
(* its continuations auth_callback and authorization_callback, and the     *)
(* service lifecycle server_start / server_stop.                           *)
(*                                                                         *)
(* The program runs on a single-threaded GLib main loop: every handler     *)
(* runs to completion, so each handler is one action.  Calls into other    *)
(* modules (device registry, local authorization service, D-Bus, the raw   *)
(* socket) are recorded, in order, in the trace of the connection event    *)
(* on whose behalf they are made.                                          *)
(***************************************************************************)
EXTENDS Integers, Sequences, FiniteSets, TLC

\* ---- bounds of the model ------------------------------------------------
MaxEvents == 2      \* connection events delivered to connect_event_cb
MaxStarts == 1      \* calls of server_start
MaxStops  == 2      \* calls of server_stop
NumDst    == 2      \* distinct remote (destination) addresses

\* ---- program constants --------------------------------------------------
L2CAP_PSM_HIDP_CTRL == 17
L2CAP_PSM_HIDP_INTR == 19
UNPLUG == 21
ENOMEM == 12
EACCES == 13

NULL == 0
CONN == 1

PSMs == {L2CAP_PSM_HIDP_CTRL, L2CAP_PSM_HIDP_INTR}

\* bdaddr_t, abstracted to two bytes; the adapter (source) address is fixed.
SrcAddrs == { <<170, 1>> }
DstAddrs == { <<187, n>> : n \in 1..NumDst }
NoAddr   == << >>

\* ba2str prints the bytes of a bdaddr_t most significant first, i.e. in the
\* reverse of their order in memory.
ba2str(ba) == [i \in 1..Len(ba) |-> ba[Len(ba) + 1 - i]]

\* DBusError as seen by a continuation: none, DBUS_ERROR_NO_REPLY, or another.
DErrs == {"none", "NoReply", "Other"}

Events == 1..MaxEvents

VARIABLES
    ctrl_io,      \* static GIOChannel *ctrl_io   (NULL or a channel id)
    intr_io,      \* static GIOChannel *intr_io
    connection,   \* static DBusConnection *connection
    chans,        \* channels returned by bt_l2cap_listen: psm and unref count
    last,         \* the last lifecycle call and what it did
    nstarts,      \* number of server_start calls so far
    nstops,       \* number of server_stop calls so far
    running,      \* between a successful server_start and the next server_stop
    crashed,      \* the process died (undefined behaviour took that outcome)
    nev,          \* number of connection events delivered so far
    ev            \* per connection event: inputs, trace of calls, auth state

vars == <<ctrl_io, intr_io, connection, chans, last, nstarts, nstops,
          running, crashed, nev, ev>>

lifeVars == <<ctrl_io, intr_io, connection, chans, last, nstarts, nstops, running>>

\* One recorded call.  src/dst are bdaddr_t or printed addresses, val is the
\* psm, the byte written or the status returned; win tells whether the call
\* always TRUE here.
Call(c, s, d, v) == [call |-> c, src |-> s, dst |-> d, val |-> v, win |-> TRUE]

\* A message handed to the D-Bus connection (val): win tells whether the
\* service was running at that moment.
Send(c, d, v) == [call |-> c, src |-> NoAddr, dst |-> d, val |-> v, win |-> running]

\* struct authorization_data: not allocated, live, or freed.
NoAuth == [state |-> "none", src |-> NoAddr, dst |-> NoAddr]

\* A connection event: the arguments of connect_event_cb, the calls made on
\* its behalf, its authorization_data, the continuations armed (pend) and
\* those that ran (fired), and what authorize_device returned.
NoEvent == [done |-> FALSE, psm |-> 0, src |-> NoAddr, dst |-> NoAddr, err |-> 0,
            trace |-> << >>, auth |-> NoAuth, pend |-> {}, fired |-> << >>,
            authCalled |-> FALSE, authRet |-> 0]

Init ==
    /\ ctrl_io = NULL
    /\ intr_io = NULL
    /\ connection = NULL
    /\ chans = << >>
    /\ last = [op |-> "none", ctrlOk |-> FALSE, intrOk |-> FALSE, ret |-> 0, unrefs |-> 0,
              stored |-> FALSE]
    /\ nstarts = 0
    /\ nstops = 0
    /\ running = FALSE
    /\ crashed = FALSE
    /\ nev = 0
    /\ ev = [e \in Events |-> NoEvent]

\* ---- service lifecycle --------------------------------------------------

\* bt_l2cap_listen: a new listening channel for psm, or NULL when it fails.
NewChan(psm) == [psm |-> psm, unrefs |-> 0]

\* g_io_channel_unref(h): the module drops its only reference to channel h.
\* The channels are close-on-unref, so the listener is closed by it.
g_io_channel_unref(cs, h) == [cs EXCEPT ![h].unrefs = @ + 1]

\* A listener for psm is open: accepted connections reach connect_event_cb.
Listening(psm) == \E h \in 1..Len(chans) : chans[h].psm = psm /\ chans[h].unrefs = 0

\* server_start without "ctrl_io = NULL" in the interrupt error branch: the
\* released control channel stays in ctrl_io.
server_start_keeps_ctrl(ctrlOk, intrOk) ==
    IF ~ctrlOk
    THEN [ctrl_io |-> NULL, intr_io |-> intr_io, connection |-> connection,
          chans |-> chans, ret |-> -1, unrefs |-> 0, stored |-> FALSE]
    ELSE LET h1 == Len(chans) + 1
             cs1 == Append(chans, NewChan(L2CAP_PSM_HIDP_CTRL))
         IN IF intrOk
            THEN [ctrl_io |-> h1, intr_io |-> h1 + 1, connection |-> CONN,
                  chans |-> Append(cs1, NewChan(L2CAP_PSM_HIDP_INTR)),
                  ret |-> 0, unrefs |-> 0, stored |-> TRUE]
            ELSE [ctrl_io |-> h1, intr_io |-> NULL, connection |-> CONN,
                  chans |-> g_io_channel_unref(cs1, h1),
                  ret |-> 0, unrefs |-> 1, stored |-> TRUE]

\* server_start without the return in the control error branch: the
\* interrupt listener is opened and the connection stored all the same.
server_start_no_return(ctrlOk, intrOk) ==
    LET cs0 == IF ctrlOk THEN Append(chans, NewChan(L2CAP_PSM_HIDP_CTRL)) ELSE chans
        h1  == IF ctrlOk THEN Len(cs0) ELSE NULL
    IN IF intrOk
       THEN [ctrl_io |-> h1, intr_io |-> Len(cs0) + 1, connection |-> CONN,
             chans |-> Append(cs0, NewChan(L2CAP_PSM_HIDP_INTR)),
             ret |-> 0, unrefs |-> 0, stored |-> TRUE]
       ELSE [ctrl_io |-> NULL, intr_io |-> NULL, connection |-> CONN,
             chans |-> IF ctrlOk THEN g_io_channel_unref(cs0, h1) ELSE cs0,
             ret |-> 0, unrefs |-> IF ctrlOk THEN 1 ELSE 0, stored |-> TRUE]

\* server_start(conn).  ctrlOk / intrOk: whether bt_l2cap_listen succeeds.
\* Result: the new values of the statics, the channels and the return value.
server_start(ctrlOk, intrOk) ==
    IF ~ctrlOk
    THEN [ctrl_io |-> NULL, intr_io |-> intr_io, connection |-> connection,
          chans |-> chans, ret |-> -1, unrefs |-> 0, stored |-> FALSE]
    ELSE LET h1 == Len(chans) + 1
             cs1 == Append(chans, NewChan(L2CAP_PSM_HIDP_CTRL))
         IN IF intrOk
            THEN [ctrl_io |-> h1, intr_io |-> h1 + 1, connection |-> CONN,
                  chans |-> Append(cs1, NewChan(L2CAP_PSM_HIDP_INTR)),
                  ret |-> 0, unrefs |-> 0, stored |-> TRUE]
            \* the error branch unrefs ctrl_io and nulls it, but does not
            \* return: g_io_channel_set_close_on_unref(NULL) only warns, then
            \* connection is stored and 0 is returned.
            ELSE [ctrl_io |-> NULL, intr_io |-> NULL, connection |-> CONN,
                  chans |-> g_io_channel_unref(cs1, h1),
                  ret |-> 0, unrefs |-> 1, stored |-> TRUE]

ServerStart ==
    /\ ~crashed
    /\ nstarts < MaxStarts
    /\ \E ctrlOk \in BOOLEAN, intrOk \in BOOLEAN :
        LET r == server_start(ctrlOk, intrOk) IN
        /\ ctrl_io' = r.ctrl_io
        /\ intr_io' = r.intr_io
        /\ connection' = r.connection
        /\ chans' = r.chans
        /\ last' = [op |-> "start", ctrlOk |-> ctrlOk, intrOk |-> intrOk,
                    ret |-> r.ret, unrefs |-> r.unrefs, stored |-> r.stored]
        /\ running' = IF ctrlOk /\ intrOk THEN TRUE ELSE running
    /\ nstarts' = nstarts + 1
    /\ UNCHANGED <<nstops, crashed, nev, ev>>

\* server_stop().  Each non-null handle is unreffed; neither handle nor the
\* connection is cleared.
server_stop ==
    LET cs1 == IF intr_io # NULL THEN g_io_channel_unref(chans, intr_io) ELSE chans
        cs2 == IF ctrl_io # NULL THEN g_io_channel_unref(cs1, ctrl_io) ELSE cs1
    IN [ctrl_io |-> ctrl_io, intr_io |-> intr_io, connection |-> connection,
        chans |-> cs2,
        unrefs |-> (IF intr_io # NULL THEN 1 ELSE 0) + (IF ctrl_io # NULL THEN 1 ELSE 0)]

\* A handle that server_stop would unref although it was already released:
\* g_io_channel_unref on freed memory is undefined behaviour.
Dangling ==
    \/ intr_io # NULL /\ chans[intr_io].unrefs > 0
    \/ ctrl_io # NULL /\ chans[ctrl_io].unrefs > 0

ServerStop ==
    /\ ~crashed
    /\ nstops < MaxStops
    /\ LET r == server_stop IN
        /\ ctrl_io' = r.ctrl_io
        /\ intr_io' = r.intr_io
        /\ connection' = r.connection
        /\ chans' = r.chans
        /\ last' = [op |-> "stop", ctrlOk |-> FALSE, intrOk |-> FALSE,
                    ret |-> 0, unrefs |-> r.unrefs, stored |-> FALSE]
    \* the use after free either goes unnoticed or kills the process
    /\ \E ub \in {"unnoticed", "crash"} : crashed' = (Dangling /\ ub = "crash")
    /\ running' = FALSE
    /\ nstops' = nstops + 1
    /\ UNCHANGED <<nstarts, nev, ev>>

\* ---- authorization broker -----------------------------------------------

\* g_new0(struct authorization_data, 1) and the two bacpy
NewAuth(src, dst) == [state |-> "live", src |-> src, dst |-> dst]

\* Return values of service_req_auth: a negative errno or 0.
PrimaryRets == {-1, 0}

\* service_req_auth(src, dst, uuid, cb, user_data): non-blocking; the
\* callback is kept, and called later, only if the request was accepted.
service_req_auth(r) == [ret |-> r, armed |-> r >= 0]

\* cancel_authorization sending the message a second time.
cancel_authorization_resend(addr, allocOk) ==
    << Call("new_CancelAuthorizationRequest", NoAddr, addr, IF allocOk THEN 1 ELSE NULL) >>
    \o (IF ~allocOk
        THEN << >>
        ELSE << Send("send_CancelAuthorizationRequest", addr, connection),
                Send("send_CancelAuthorizationRequest", addr, connection) >>)

\* cancel_authorization(addr).  allocOk: dbus_message_new_method_call
\* returned a message.  Result: the calls made.
cancel_authorization(addr, allocOk) ==
    << Call("new_CancelAuthorizationRequest", NoAddr, addr, IF allocOk THEN 1 ELSE NULL) >>
    \o (IF ~allocOk
        THEN << >>
        ELSE << Send("send_CancelAuthorizationRequest", addr, connection) >>)

\* g_free of the authorization_data
FreeAuth(a) == << Call("g_free", a.src, a.dst, 0) >>

\* authorization_callback without the dbus_error_has_name test: every error
\* is answered with a cancellation.
authorization_callback_cancel_any(a, derr, allocOk) ==
    (IF derr = "none"
     THEN << Call("input_device_connadd", a.src, a.dst, 0) >>
     ELSE cancel_authorization(ba2str(a.dst), allocOk)
          \o << Call("input_device_close_channels", a.src, a.dst, 0) >>)
    \o FreeAuth(a)

\* authorization_callback closing the channels before it cancels.
authorization_callback_close_first(a, derr, allocOk) ==
    (IF derr = "none"
     THEN << Call("input_device_connadd", a.src, a.dst, 0) >>
     ELSE << Call("input_device_close_channels", a.src, a.dst, 0) >>
          \o (IF derr = "NoReply"
              THEN cancel_authorization(ba2str(a.dst), allocOk)
              ELSE << >>))
    \o FreeAuth(a)

\* authorization_callback(pcall, data): the reply of RequestAuthorization.
\* Result: the calls made, the g_free registered with
\* dbus_pending_call_set_notify included (it runs when the pending call,
\* whose last reference the connection drops after notifying, is freed).
authorization_callback(a, derr, allocOk) ==
    (IF derr = "none"
     THEN << Call("input_device_connadd", a.src, a.dst, 0) >>
     ELSE (IF derr = "NoReply"
           THEN cancel_authorization(ba2str(a.dst), allocOk)
           ELSE << >>)
          \o << Call("input_device_close_channels", a.src, a.dst, 0) >>)
    \o FreeAuth(a)

\* auth_callback with input_device_close_channels inside the "no reply"
\* branch: other errors leave the channels as they are.
auth_callback_close_on_noreply(a, derr) ==
    (IF derr # "none"
     THEN (IF derr = "NoReply"
           THEN << Call("service_cancel_auth", NoAddr, a.dst, 0),
                   Call("input_device_close_channels", a.src, a.dst, 0) >>
           ELSE << >>)
     ELSE << Call("input_device_connadd", a.src, a.dst, 0) >>)
    \o FreeAuth(a)

\* auth_callback closing the channels of the pair taken the wrong way round
\* (&auth->dst, &auth->src).
auth_callback_swapped_pair(a, derr) ==
    (IF derr # "none"
     THEN (IF derr = "NoReply"
           THEN << Call("service_cancel_auth", NoAddr, a.dst, 0) >>
           ELSE << >>)
          \o << Call("input_device_close_channels", a.dst, a.src, 0) >>
     ELSE << Call("input_device_connadd", a.src, a.dst, 0) >>)
    \o FreeAuth(a)

\* auth_callback with input_device_close_channels after the if/else: the
\* channels of an admitted device are closed as well.
auth_callback_close_always(a, derr) ==
    (IF derr # "none"
     THEN (IF derr = "NoReply"
           THEN << Call("service_cancel_auth", NoAddr, a.dst, 0) >>
           ELSE << >>)
     ELSE << Call("input_device_connadd", a.src, a.dst, 0) >>)
    \o << Call("input_device_close_channels", a.src, a.dst, 0) >>
    \o FreeAuth(a)

\* auth_callback(derr, user_data): the continuation of service_req_auth.
auth_callback(a, derr) ==
    (IF derr # "none"
     THEN (IF derr = "NoReply"
           THEN << Call("service_cancel_auth", NoAddr, a.dst, 0) >>
           ELSE << >>)
          \o << Call("input_device_close_channels", a.src, a.dst, 0) >>
     ELSE << Call("input_device_connadd", a.src, a.dst, 0) >>)
    \o FreeAuth(a)

\* fallback_request ignoring the result of dbus_connection_send_with_reply:
\* the notify is set and 0 returned although nothing was sent.
fallback_request_ignore_send(dst, allocOk, sendOk) ==
    LET c1 == << Call("new_RequestAuthorization", NoAddr, ba2str(dst),
                      IF allocOk THEN 1 ELSE NULL) >>
    IN IF ~allocOk
       THEN [ret |-> -ENOMEM, calls |-> c1, armed |-> FALSE]
       ELSE [ret |-> 0, armed |-> TRUE,
             calls |-> Append(c1, Send("send_RequestAuthorization", ba2str(dst),
                                       IF sendOk THEN connection ELSE -1))]

\* fallback_request with the two error codes exchanged.
fallback_request_swapped_errno(dst, allocOk, sendOk) ==
    LET c1 == << Call("new_RequestAuthorization", NoAddr, ba2str(dst),
                      IF allocOk THEN 1 ELSE NULL) >>
    IN IF ~allocOk
       THEN [ret |-> -EACCES, calls |-> c1, armed |-> FALSE]
       ELSE LET c2 == Append(c1, Send("send_RequestAuthorization", ba2str(dst),
                                      IF sendOk THEN connection ELSE -1))
            IN IF ~sendOk
               THEN [ret |-> -ENOMEM, calls |-> c2, armed |-> FALSE]
               ELSE [ret |-> 0, calls |-> c2, armed |-> TRUE]

\* The fallback part of authorize_device (label fallback).  allocOk:
\* dbus_message_new_method_call returned a message; sendOk:
\* dbus_connection_send_with_reply returned TRUE.
\* Result: return value, calls made, whether authorization_callback is armed.
fallback_request(dst, allocOk, sendOk) ==
    LET c1 == << Call("new_RequestAuthorization", NoAddr, ba2str(dst),
                      IF allocOk THEN 1 ELSE NULL) >>
    IN IF ~allocOk
       THEN [ret |-> -ENOMEM, calls |-> c1, armed |-> FALSE]
       ELSE LET c2 == Append(c1, Send("send_RequestAuthorization", ba2str(dst),
                                      IF sendOk THEN connection ELSE -1))
            IN IF ~sendOk
               THEN [ret |-> -EACCES, calls |-> c2, armed |-> FALSE]
               ELSE [ret |-> 0, calls |-> c2, armed |-> TRUE]

\* authorize_device without the "return retval" before the fallback label:
\* the fallback request is made whatever service_req_auth returned.
authorize_device_fallthrough(src, dst, primaryRet, allocOk, sendOk) ==
    LET auth == NewAuth(src, dst)
        prim == service_req_auth(primaryRet)
        c1   == << Call("service_req_auth", src, dst, prim.ret) >>
        p1   == IF prim.armed THEN {"primary"} ELSE {}
        f    == fallback_request(dst, allocOk, sendOk)
    IN [ret |-> f.ret, calls |-> c1 \o f.calls, auth |-> auth,
        pend |-> p1 \cup (IF f.armed THEN {"fallback"} ELSE {})]

\* authorize_device(src, dst).  primaryRet: what service_req_auth returns.
\* Result: return value, calls made, continuations armed, the allocation.
authorize_device(src, dst, primaryRet, allocOk, sendOk) ==
    LET auth == NewAuth(src, dst)
        prim == service_req_auth(primaryRet)
        c1   == << Call("service_req_auth", src, dst, prim.ret) >>
        p1   == IF prim.armed THEN {"primary"} ELSE {}
    IN IF prim.ret < 0
       THEN LET f == fallback_request(dst, allocOk, sendOk)
            IN [ret |-> f.ret, calls |-> c1 \o f.calls, auth |-> auth,
                pend |-> p1 \cup (IF f.armed THEN {"fallback"} ELSE {})]
       ELSE [ret |-> prim.ret, calls |-> c1, auth |-> auth, pend |-> p1]

\* ---- connection acceptor ------------------------------------------------

\* reject_channel with the psm test inverted: the unplug byte goes to the
\* interrupt channel.
reject_channel_wrong_psm(psm) ==
    (IF psm # L2CAP_PSM_HIDP_CTRL
     THEN << Call("write", NoAddr, NoAddr, UNPLUG) >>
     ELSE << >>)
    \o << Call("close", NoAddr, NoAddr, 0) >>

\* The psm test made against the control psm.
needs_authorization_ctrl(psm) == psm = L2CAP_PSM_HIDP_CTRL

\* reject_channel without the psm test: every rejected channel is sent the
\* unplug byte.
reject_channel_unplug_any(psm) ==
    << Call("write", NoAddr, NoAddr, UNPLUG), Call("close", NoAddr, NoAddr, 0) >>

\* The psm test dropped: every registered channel asks for authorization.
needs_authorization_any(psm) == TRUE

\* The test of connect_event_cb that sends a registered channel to
\* authorize_device.
needs_authorization(psm) == psm = L2CAP_PSM_HIDP_INTR

\* connect_event_cb when input_device_set_channel failed: the unplug byte
\* for the control channel, then close(sk).
reject_channel(psm) ==
    (IF psm = L2CAP_PSM_HIDP_CTRL
     THEN << Call("write", NoAddr, NoAddr, UNPLUG) >>
     ELSE << >>)
    \o << Call("close", NoAddr, NoAddr, 0) >>

\* connect_event_cb without the err test: a failed accept is handled like
\* an accepted connection.
connect_event_cb_ignores_err(psm, err, src, dst, regOk, primaryRet, allocOk, sendOk) ==
    LET base == [NoEvent EXCEPT !.done = TRUE, !.psm = psm, !.src = src,
                                !.dst = dst, !.err = err]
        reg  == << Call("input_device_set_channel", src, dst, IF regOk THEN 0 ELSE -1) >>
    IN IF ~regOk
       THEN [base EXCEPT !.trace = reg \o reject_channel(psm)]
       ELSE IF needs_authorization(psm)
       THEN LET r == authorize_device(src, dst, primaryRet, allocOk, sendOk)
            IN [base EXCEPT
                  !.trace = reg \o r.calls \o
                            (IF r.ret < 0
                             THEN << Call("input_device_close_channels", src, dst, 0) >>
                             ELSE << >>),
                  !.auth = r.auth, !.pend = r.pend,
                  !.authCalled = TRUE, !.authRet = r.ret]
       ELSE [base EXCEPT !.trace = reg]

\* connect_event_cb(chan, err, src, dst, data) with psm = data.
\* regOk: input_device_set_channel returned >= 0.
\* Result: the record of the event after the handler returned.
connect_event_cb(psm, err, src, dst, regOk, primaryRet, allocOk, sendOk) ==
    LET base == [NoEvent EXCEPT !.done = TRUE, !.psm = psm, !.src = src,
                                !.dst = dst, !.err = err]
        reg  == << Call("input_device_set_channel", src, dst, IF regOk THEN 0 ELSE -1) >>
    IN IF err < 0
       THEN base
       ELSE IF ~regOk
       THEN [base EXCEPT !.trace = reg \o reject_channel(psm)]
       ELSE IF needs_authorization(psm)
       THEN LET r == authorize_device(src, dst, primaryRet, allocOk, sendOk)
            IN [base EXCEPT
                  !.trace = reg \o r.calls \o
                            (IF r.ret < 0
                             THEN << Call("input_device_close_channels", src, dst, 0) >>
                             ELSE << >>),
                  !.auth = r.auth, !.pend = r.pend,
                  !.authCalled = TRUE, !.authRet = r.ret]
       ELSE [base EXCEPT !.trace = reg]

\* The peers that may connect next.  Remote addresses are interchangeable,
\* so a new peer always takes the lowest address not seen so far.
SeenDst == { ev[e].dst : e \in 1..nev }
PeerAddrs == { d \in DstAddrs : d[2] <= Cardinality(SeenDst) + 1 }

\* err of connect_event_cb: a negative errno when accept failed, else 0.
AcceptErrs == {-1, 0}

\* A listener accepted (or failed to accept) a connection.
ConnectEvent ==
    /\ ~crashed
    /\ nev < MaxEvents
    /\ \E psm \in PSMs, err \in AcceptErrs, src \in SrcAddrs, dst \in PeerAddrs,
          regOk \in BOOLEAN, primaryRet \in PrimaryRets,
          allocOk \in BOOLEAN, sendOk \in BOOLEAN :
        /\ Listening(psm)
        /\ ev' = [ev EXCEPT ![nev + 1] =
                    connect_event_cb(psm, err, src, dst, regOk, primaryRet, allocOk, sendOk)]
    /\ nev' = nev + 1
    /\ UNCHANGED <<lifeVars, crashed>>

\* The local authorization service answers: auth_callback runs and frees
\* the authorization_data.
AuthCallback ==
    /\ ~crashed
    /\ \E e \in Events, derr \in DErrs :
        /\ "primary" \in ev[e].pend
        /\ ev' = [ev EXCEPT ![e].trace = @ \o auth_callback(ev[e].auth, derr),
                            ![e].pend = @ \ {"primary"},
                            ![e].fired = Append(@, [tier |-> "primary", derr |-> derr]),
                            ![e].auth.state = "freed"]
    /\ UNCHANGED <<lifeVars, crashed, nev>>

\* The reply (or error) of RequestAuthorization arrives:
\* authorization_callback runs, then the pending call frees its data.
AuthorizationCallback ==
    /\ ~crashed
    /\ \E e \in Events, derr \in DErrs, allocOk \in BOOLEAN :
        /\ "fallback" \in ev[e].pend
        /\ ev' = [ev EXCEPT ![e].trace = @ \o authorization_callback(ev[e].auth, derr, allocOk),
                            ![e].pend = @ \ {"fallback"},
                            ![e].fired = Append(@, [tier |-> "fallback", derr |-> derr]),
                            ![e].auth.state = "freed"]
    /\ UNCHANGED <<lifeVars, crashed, nev>>

Next ==
    \/ ServerStart
    \/ ServerStop
    \/ ConnectEvent
    \/ AuthCallback
    \/ AuthorizationCallback

Spec == Init /\ [][Next]_vars

\* The service as server_start leaves it when both listeners open: the
\* only state in which connections are accepted for the first time.
InitServing ==
    /\ ctrl_io = 1
    /\ intr_io = 2
    /\ connection = CONN
    /\ chans = << NewChan(L2CAP_PSM_HIDP_CTRL), NewChan(L2CAP_PSM_HIDP_INTR) >>
    /\ last = [op |-> "start", ctrlOk |-> TRUE, intrOk |-> TRUE, ret |-> 0,
               unrefs |-> 0, stored |-> TRUE]
    /\ nstarts = 1
    /\ nstops = 0
    /\ running = TRUE
    /\ crashed = FALSE
    /\ nev = 0
    /\ ev = [e \in Events |-> NoEvent]

\* From there on: connections, continuations and server_stop.
NextServing ==
    \/ ServerStop
    \/ ConnectEvent
    \/ AuthCallback
    \/ AuthorizationCallback

\* The service between a successful server_start and the end of the process.
ServingSpec == InitServing /\ [][NextServing]_vars

\* The main loop dispatches every continuation that is due.
FairSpec ==
    /\ ServingSpec
    /\ WF_vars(AuthCallback)
    /\ WF_vars(AuthorizationCallback)

\* ---- properties ---------------------------------------------------------

\* Positions and number of the calls named c in a trace.
Idx(tr, c) == { i \in 1..Len(tr) : tr[i].call = c }
Count(tr, c) == Cardinality(Idx(tr, c))
\* ... of those made with the given addresses.
CountFor(tr, c, s, d) == Cardinality({ i \in Idx(tr, c) : tr[i].src = s /\ tr[i].dst = d })

\* connect_event_cb ran for event e with err >= 0 on the listener of psm.
Accepted(e, psm) == ev[e].done /\ ev[e].err >= 0 /\ ev[e].psm = psm
\* ... and input_device_set_channel refused the channel.
RegFailed(e) == ev[e].done /\ ev[e].err >= 0 /\ ev[e].trace[1].val < 0
\* A continuation of event e is armed and has not run yet.
Pending(e) == ev[e].pend # {}
\* Continuations of the given tier that ran for e with DBUS_ERROR_NO_REPLY.
NoReplies(e, tier) ==
    Cardinality({ i \in 1..Len(ev[e].fired) :
                    ev[e].fired[i].tier = tier /\ ev[e].fired[i].derr = "NoReply" })

Admitted(e) == CountFor(ev[e].trace, "input_device_connadd", ev[e].src, ev[e].dst)
ChannelsClosed(e) == CountFor(ev[e].trace, "input_device_close_channels", ev[e].src, ev[e].dst)
\* The ways connect_event_cb and the continuations dispose of a connection.
Outcomes(e) == Admitted(e) + ChannelsClosed(e) + Count(ev[e].trace, "close")

\* C1 as stated: once an accepted Interrupt connection has no continuation
\* outstanding, exactly one of input_device_connadd and
\* input_device_close_channels was called for its pair, and never both.
InterruptAdmittedXorClosed ==
    \A e \in Events :
        Accepted(e, L2CAP_PSM_HIDP_INTR) =>
            /\ Admitted(e) + ChannelsClosed(e) <= 1
            /\ ~Pending(e) => Admitted(e) + ChannelsClosed(e) = 1

\* C1 amended: provided every armed continuation eventually runs, every
\* accepted Interrupt connection eventually gets exactly one of: admitted
\* (input_device_connadd), channels closed (input_device_close_channels),
\* or, when registration failed, its raw channel closed (close); never two.
InterruptResolvesExactlyOnce ==
    \A e \in Events :
        /\ [](Outcomes(e) <= 1)
        /\ (Pending(e) ~> ~Pending(e))
              => (Accepted(e, L2CAP_PSM_HIDP_INTR) ~> (Outcomes(e) = 1))

InterruptResolvedByContinuation ==
    \E e \in Events :
        /\ Accepted(e, L2CAP_PSM_HIDP_INTR)
        /\ Len(ev[e].fired) = 1
        /\ ev[e].fired[1].derr = "Other"
        /\ ChannelsClosed(e) = 1

\* C2 as stated: per connection, the cancellations issued on each tier are
\* exactly the "no reply" errors delivered on that tier, each for the
\* destination address: service_cancel_auth calls on the primary tier, sent
\* CancelAuthorizationRequest messages on the fallback tier.
NoReplyCancelsExactlyOnce ==
    \A e \in Events :
        LET tr == ev[e].trace
            a  == ev[e].auth
        IN /\ Count(tr, "service_cancel_auth") = NoReplies(e, "primary")
           /\ CountFor(tr, "service_cancel_auth", NoAddr, a.dst) = NoReplies(e, "primary")
           /\ Count(tr, "send_CancelAuthorizationRequest") = NoReplies(e, "fallback")
           /\ CountFor(tr, "send_CancelAuthorizationRequest", NoAddr, ba2str(a.dst))
                = NoReplies(e, "fallback")

\* C2 amended: as stated for the primary tier; on the fallback tier each
\* "no reply" error makes exactly one cancel_authorization call for the
\* printed destination address, which sends exactly one
\* CancelAuthorizationRequest unless the message cannot be allocated, and
\* then sends none.  Other errors and successes cause no cancellation.
NoReplyCancelsOnceUnlessNoMemory ==
    \A e \in Events :
        LET tr == ev[e].trace
            a  == ev[e].auth
            news == Idx(tr, "new_CancelAuthorizationRequest")
        IN /\ Count(tr, "service_cancel_auth") = NoReplies(e, "primary")
           /\ CountFor(tr, "service_cancel_auth", NoAddr, a.dst) = NoReplies(e, "primary")
           /\ Cardinality(news) = NoReplies(e, "fallback")
           /\ \A i \in news : tr[i].dst = ba2str(a.dst)
           /\ Count(tr, "send_CancelAuthorizationRequest")
                = Cardinality({ i \in news : tr[i].val # NULL })
           /\ CountFor(tr, "send_CancelAuthorizationRequest", NoAddr, ba2str(a.dst))
                = Cardinality({ i \in news : tr[i].val # NULL })

NoReplyOnBothTiers ==
    \E e1 \in Events, e2 \in Events :
        /\ NoReplies(e1, "primary") = 1
        /\ Count(ev[e1].trace, "service_cancel_auth") = 1
        /\ NoReplies(e2, "fallback") = 1
        /\ Count(ev[e2].trace, "send_CancelAuthorizationRequest") = 1

\* service_req_auth returned a negative code for event e.
PrimaryFailed(e) ==
    \E i \in Idx(ev[e].trace, "service_req_auth") : ev[e].trace[i].val < 0
\* dbus_connection_send_with_reply was called for e and returned FALSE.
SendFailed(e) ==
    \E i \in Idx(ev[e].trace, "send_RequestAuthorization") : ev[e].trace[i].val = -1

\* C3 as stated: after a negative service_req_auth the RequestAuthorization
\* message is always sent; if the send fails authorize_device returns a
\* negative code and no continuation is armed or runs.
FallbackAlwaysSent ==
    \A e \in Events :
        PrimaryFailed(e) =>
            /\ Count(ev[e].trace, "send_RequestAuthorization") = 1
            /\ SendFailed(e) =>
                  ev[e].authRet < 0 /\ ev[e].pend = {} /\ ev[e].fired = << >>

\* C3 amended: after a negative service_req_auth the RequestAuthorization
\* message is always constructed; it is sent once for the printed
\* destination unless it cannot be allocated, in which case authorize_device
\* returns -ENOMEM without sending; if the send fails authorize_device
\* returns -EACCES; in both cases no continuation is armed or runs.
FallbackSentUnlessNoMemory ==
    \A e \in Events :
        PrimaryFailed(e) =>
            LET tr == ev[e].trace
                news == Idx(tr, "new_RequestAuthorization")
            IN /\ Cardinality(news) = 1
               /\ \A i \in news :
                    /\ tr[i].dst = ba2str(ev[e].dst)
                    /\ tr[i].val # NULL =>
                          CountFor(tr, "send_RequestAuthorization", NoAddr, ba2str(ev[e].dst)) = 1
                    /\ tr[i].val = NULL =>
                          /\ Count(tr, "send_RequestAuthorization") = 0
                          /\ ev[e].authRet = -ENOMEM
                          /\ ev[e].pend = {} /\ ev[e].fired = << >>
               /\ SendFailed(e) =>
                     ev[e].authRet = -EACCES /\ ev[e].pend = {} /\ ev[e].fired = << >>

FallbackSendFailed ==
    \E e \in Events : PrimaryFailed(e) /\ SendFailed(e) /\ ev[e].authRet = -EACCES

\* C4 as stated: when the control listener opens and the interrupt listener
\* does not, server_start closes the control listener, returns a negative
\* value, leaves both handles null and does not store the connection.
StartFailsWhenInterruptListenFails ==
    (last.op = "start" /\ last.ctrlOk /\ ~last.intrOk) =>
        /\ last.unrefs = 1
        /\ last.ret < 0
        /\ ctrl_io = NULL /\ intr_io = NULL
        /\ ~last.stored

\* C5 as stated: no listener channel is unreffed twice, whatever the
\* sequence of server_start and server_stop calls.
NoListenerReleasedTwice ==
    \A h \in 1..Len(chans) : chans[h].unrefs <= 1

\* C6 as stated: the connection is null once server_stop has run, and every
\* message handed to it is sent while the service is running.
ConnectionUsedOnlyWhileRunning ==
    /\ last.op = "stop" => connection = NULL
    /\ \A e \in Events : \A i \in 1..Len(ev[e].trace) : ev[e].trace[i].win

\* The second half of C6 alone.
MessagesSentOnlyWhileRunning ==
    \A e \in Events : \A i \in 1..Len(ev[e].trace) : ev[e].trace[i].win

\* C7 as stated: no authorization_data is freed twice, and once an attempt
\* has no continuation outstanding its authorization_data has been freed.
AuthorizationDataFreedOnce ==
    \A e \in Events :
        /\ Count(ev[e].trace, "g_free") <= 1
        /\ (ev[e].auth.state # "none" /\ ~Pending(e)) =>
              ev[e].auth.state = "freed" /\ Count(ev[e].trace, "g_free") = 1

\* C8: a control connection whose registration fails gets exactly one write
\* of the unplug byte 0x15, then exactly one close, and nothing else.
ControlRejectUnplugsThenCloses ==
    \A e \in Events :
        (Accepted(e, L2CAP_PSM_HIDP_CTRL) /\ RegFailed(e)) =>
            LET tr == ev[e].trace
            IN /\ Count(tr, "write") = 1
               /\ Count(tr, "close") = 1
               /\ \A i \in Idx(tr, "write") :
                    tr[i].val = UNPLUG /\ \A j \in Idx(tr, "close") : i < j
               /\ Len(tr) = 3

ControlConnectionRejected ==
    \E e \in Events :
        Accepted(e, L2CAP_PSM_HIDP_CTRL) /\ RegFailed(e) /\ Count(ev[e].trace, "close") = 1

\* Continuations that ran for connections from destination d.
FiredFor(d) == { <<e, i>> \in Events \X (1..2) : ev[e].dst = d /\ i <= Len(ev[e].fired) }

\* C9 as stated: for one device pair at most one continuation runs.
AtMostOneContinuationPerPair ==
    \A d \in DstAddrs : Cardinality(FiredFor(d)) <= 1

\* C9 amended: for one accepted connection event at most one continuation
\* is armed or runs, the fallback one only after service_req_auth returned
\* a negative code and the primary one only after it returned >= 0.
AtMostOneContinuationPerAttempt ==
    \A e \in Events :
        LET tiers == ev[e].pend \cup { ev[e].fired[i].tier : i \in 1..Len(ev[e].fired) }
        IN /\ Len(ev[e].fired) + Cardinality(ev[e].pend) <= 1
           /\ "fallback" \in tiers => PrimaryFailed(e)
           /\ "primary" \in tiers => ~PrimaryFailed(e)

BothTiersRan ==
    \E e1 \in Events, e2 \in Events :
        /\ Len(ev[e1].fired) = 1 /\ ev[e1].fired[1].tier = "primary"
        /\ Len(ev[e2].fired) = 1 /\ ev[e2].fired[1].tier = "fallback"

\* Live authorization_data whose destination is d.
Live(d) == { e \in Events : ev[e].auth.state = "live" /\ ev[e].auth.dst = d }
\* Interrupt connections from d that were accepted and registered.
Attempts(d) ==
    { e \in Events : Accepted(e, L2CAP_PSM_HIDP_INTR) /\ ~RegFailed(e) /\ ev[e].dst = d }

\* ... of those, the ones whose continuation is still to run.  (The others
\* were left allocated by an authorize_device that returned an error.)
InFlight(d) == { e \in Live(d) : Pending(e) }

\* C10 as stated: at most one authorization_data is live per destination;
\* counted here are only those awaiting their continuation.
AtMostOneLivePerDestination ==
    \A d \in DstAddrs : Cardinality(InFlight(d)) <= 1

\* C10 amended: each accepted and registered Interrupt connection event
\* allocates one authorization_data and nothing else does, so those live for
\* a destination are never more than such events for it (and may be two
\* when two events for the same pair arrive before the first resolves).
LivePerDestinationWithinAttempts ==
    \A d \in DstAddrs :
        /\ Live(d) \subseteq Attempts(d)
        /\ \A e \in Attempts(d) : Count(ev[e].trace, "service_req_auth") = 1

TwoLiveForOneDestination ==
    \E d \in DstAddrs : Cardinality(InFlight(d)) = 2


\* Every call made for event e names the pair of e and no other: registry,
\* service and g_free calls its bdaddr_t, D-Bus messages its printed
\* destination, socket calls no address.
OwnPairOnly(e) ==
    \A i \in 1..Len(ev[e].trace) :
        LET c == ev[e].trace[i] IN
        IF c.call \in {"write", "close"}
        THEN c.src = NoAddr /\ c.dst = NoAddr
        ELSE IF c.call = "service_cancel_auth"
        THEN c.src = NoAddr /\ c.dst = ev[e].dst
        ELSE IF c.call \in {"new_RequestAuthorization", "send_RequestAuthorization",
                            "new_CancelAuthorizationRequest",
                            "send_CancelAuthorizationRequest"}
        THEN c.src = NoAddr /\ c.dst = ba2str(ev[e].dst)
        ELSE c.src = ev[e].src /\ c.dst = ev[e].dst

\* authorize_device returned a negative code for event e.
DispatchFailed(e) == ev[e].authCalled /\ ev[e].authRet < 0
\* A continuation of e ran with an error.
Denied(e) == \E i \in 1..Len(ev[e].fired) : ev[e].fired[i].derr # "none"

\* C11 as stated: every call made for a connection names that connection's
\* pair only, and every failure after an accepted connection (registration
\* refused, dispatch failed, continuation with an error) ends with
\* input_device_close_channels called for the pair.
FailureClosesOwnChannels ==
    \A e \in Events :
        /\ OwnPairOnly(e)
        /\ (RegFailed(e) \/ DispatchFailed(e) \/ Denied(e)) => ChannelsClosed(e) >= 1

\* C11 amended: every call made for a connection names that connection's
\* pair only; a failed dispatch and a continuation with an error end with
\* input_device_close_channels called once for the pair; a refused
\* registration ends with close of the raw channel and no registry call
\* beyond the registration itself; a failed accept makes no call at all.
FailureScopedToOwnPair ==
    \A e \in Events :
        /\ OwnPairOnly(e)
        /\ (DispatchFailed(e) \/ Denied(e)) => ChannelsClosed(e) = 1
        /\ RegFailed(e) =>
              /\ ChannelsClosed(e) = 0
              /\ Count(ev[e].trace, "close") = 1
        /\ (ev[e].done /\ ev[e].err < 0) => ev[e].trace = << >>

DeniedBesideAdmitted ==
    \E e1 \in Events, e2 \in Events :
        /\ ev[e1].dst # ev[e2].dst
        /\ Denied(e1) /\ ChannelsClosed(e1) = 1
        /\ Len(ev[e2].fired) = 1 /\ Admitted(e2) = 1 /\ ChannelsClosed(e2) = 0


\* server_start opened both listeners at some time: interrupt channels are
\* created by nothing else.
EverStarted == \E h \in 1..Len(chans) : chans[h].psm = L2CAP_PSM_HIDP_INTR

\* C12: a server_stop with no successful server_start before it (none at
\* all, or only ones in which a listener failed to open) unrefs no channel,
\* finds both handles null and does not bring the process down.
StopWithoutStartIsNoop ==
    (last.op = "stop" /\ ~EverStarted) =>
        /\ last.unrefs = 0
        /\ ctrl_io = NULL /\ intr_io = NULL
        /\ \A h \in 1..Len(chans) : chans[h].unrefs <= 1
        /\ ~crashed

StoppedAfterFailedStart ==
    /\ last.op = "stop"
    /\ ~EverStarted
    /\ Len(chans) = 1
    /\ chans[1].unrefs = 1

\* C13: a server_start whose control listener fails to open returns a
\* negative value, opens no channel, leaves ctrl_io null and intr_io as it
\* was (null if it was null), and does not store the connection.
ControlListenFailureStopsStart ==
    [][(last'.op = "start" /\ nstarts' = nstarts + 1 /\ ~last'.ctrlOk) =>
          /\ last'.ret < 0
          /\ chans' = chans
          /\ ctrl_io' = NULL
          /\ intr_io' = intr_io
          /\ connection' = connection
          /\ ~last'.stored]_vars

ControlListenFailed ==
    /\ last.op = "start" /\ ~last.ctrlOk
    /\ last.ret < 0
    /\ ctrl_io = NULL /\ intr_io = NULL /\ connection = NULL


\* Requests and cancellations in a trace.
RequestCalls == {"service_req_auth", "new_RequestAuthorization", "send_RequestAuthorization"}
CancelCalls == {"service_cancel_auth", "new_CancelAuthorizationRequest",
                "send_CancelAuthorizationRequest"}
Positions(tr, cs) == { i \in 1..Len(tr) : tr[i].call \in cs }

\* C14: an accepted Interrupt connection causes at most one service_req_auth
\* and at most one RequestAuthorization; at most one continuation runs for
\* it; a continuation with an error is followed by at most one cancellation
\* and a failed dispatch by none; and no request is made after a
\* cancellation or after the channels were closed.
NoRetries ==
    \A e \in Events :
        LET tr == ev[e].trace
            ends == Positions(tr, CancelCalls \cup {"input_device_close_channels"})
        IN /\ Count(tr, "service_req_auth") <= 1
           /\ Count(tr, "new_RequestAuthorization") <= 1
           /\ Count(tr, "send_RequestAuthorization") <= 1
           /\ Len(ev[e].fired) <= 1
           /\ Count(tr, "service_cancel_auth") + Count(tr, "new_CancelAuthorizationRequest") <= 1
           /\ Count(tr, "send_CancelAuthorizationRequest") <= 1
           /\ DispatchFailed(e) => Positions(tr, CancelCalls) = {} /\ ev[e].pend = {}
           /\ (Denied(e) \/ DispatchFailed(e)) => ev[e].pend = {}
           /\ \A i \in Positions(tr, RequestCalls) : \A j \in ends : i < j

DeniedAfterFallback ==
    \E e \in Events :
        /\ Count(ev[e].trace, "send_RequestAuthorization") = 1
        /\ NoReplies(e, "fallback") = 1
        /\ Count(ev[e].trace, "send_CancelAuthorizationRequest") = 1
        /\ ChannelsClosed(e) = 1

\* C15: when a continuation ran with an error, input_device_close_channels
\* was called exactly once, for the captured pair, input_device_connadd not
\* at all; and when the error was "no reply" the cancellation
\* (service_cancel_auth, or cancel_authorization and the message it sends)
\* was made before the channels were closed.
ErrorCancelsThenCloses ==
    \A e \in Events :
        Denied(e) =>
            LET tr == ev[e].trace
                a  == ev[e].auth
            IN /\ Count(tr, "input_device_close_channels") = 1
               /\ CountFor(tr, "input_device_close_channels", a.src, a.dst) = 1
               /\ a.src = ev[e].src /\ a.dst = ev[e].dst
               /\ Count(tr, "input_device_connadd") = 0
               /\ (NoReplies(e, "primary") + NoReplies(e, "fallback") > 0) =>
                     /\ Count(tr, "service_cancel_auth")
                          + Count(tr, "new_CancelAuthorizationRequest") = 1
                     /\ \A i \in Positions(tr, CancelCalls) :
                          \A j \in Idx(tr, "input_device_close_channels") : i < j

NoReplyCancelledThenClosed ==
    \E e1 \in Events, e2 \in Events :
        /\ NoReplies(e1, "primary") = 1
        /\ Count(ev[e1].trace, "service_cancel_auth") = 1
        /\ Count(ev[e1].trace, "input_device_close_channels") = 1
        /\ NoReplies(e2, "fallback") = 1
        /\ Count(ev[e2].trace, "new_CancelAuthorizationRequest") = 1
        /\ Count(ev[e2].trace, "input_device_close_channels") = 1

\* A continuation of e ran without error.
Granted(e) == \E i \in 1..Len(ev[e].fired) : ev[e].fired[i].derr = "none"

\* C16: when a continuation ran without error, input_device_connadd was
\* called exactly once, for the captured pair, input_device_close_channels
\* not at all, and nothing was cancelled.
GrantAdmitsOnce ==
    \A e \in Events :
        Granted(e) =>
            LET tr == ev[e].trace
                a  == ev[e].auth
            IN /\ Count(tr, "input_device_connadd") = 1
               /\ CountFor(tr, "input_device_connadd", a.src, a.dst) = 1
               /\ a.src = ev[e].src /\ a.dst = ev[e].dst
               /\ Count(tr, "input_device_close_channels") = 0
               /\ Positions(tr, CancelCalls) = {}

GrantedOnBothTiers ==
    \E e1 \in Events, e2 \in Events :
        /\ Granted(e1) /\ ev[e1].fired[1].tier = "primary" /\ Admitted(e1) = 1
        /\ Granted(e2) /\ ev[e2].fired[1].tier = "fallback" /\ Admitted(e2) = 1


\* C17: authorize_device is called only for an accepted Interrupt connection
\* whose registration succeeded; an accepted Control connection causes
\* nothing but its registration and, when that fails, the unplug byte and
\* the close: no allocation, request, admission or input_device_close_channels.
BrokerOnlyForInterrupt ==
    \A e \in Events :
        /\ (ev[e].authCalled \/ ev[e].auth.state # "none"
              \/ Positions(ev[e].trace, RequestCalls) # {}) =>
              Accepted(e, L2CAP_PSM_HIDP_INTR) /\ ~RegFailed(e)
        /\ Accepted(e, L2CAP_PSM_HIDP_CTRL) =>
              /\ \A i \in 1..Len(ev[e].trace) :
                    ev[e].trace[i].call \in {"input_device_set_channel", "write", "close"}
              /\ ev[e].pend = {} /\ ev[e].fired = << >>

ControlConnectionRegistered ==
    \E e1 \in Events, e2 \in Events :
        /\ Accepted(e1, L2CAP_PSM_HIDP_CTRL) /\ ~RegFailed(e1) /\ Len(ev[e1].trace) = 1
        /\ Accepted(e2, L2CAP_PSM_HIDP_INTR) /\ ev[e2].authCalled

\* C18: authorize_device returns what service_req_auth returned when that is
\* >= 0, and then makes no fallback request; otherwise -ENOMEM when the
\* message cannot be allocated, -EACCES when it cannot be sent, 0 when it was
\* sent; and connect_event_cb calls input_device_close_channels once for the
\* pair exactly when the status is negative.
ImmediateStatus ==
    \A e \in Events :
        ev[e].authCalled =>
            LET tr == ev[e].trace
                prim == { tr[i].val : i \in Idx(tr, "service_req_auth") }
                news == { tr[i].val : i \in Idx(tr, "new_RequestAuthorization") }
                sends == { tr[i].val : i \in Idx(tr, "send_RequestAuthorization") }
                early == { i \in Idx(tr, "input_device_close_channels") :
                             ev[e].fired = << >> }
            IN /\ Cardinality(prim) = 1
               /\ \A r \in prim :
                    IF r >= 0
                    THEN ev[e].authRet = r /\ news = {} /\ sends = {}
                    ELSE /\ Cardinality(news) = 1
                         /\ ev[e].authRet =
                              (IF news = {NULL} THEN -ENOMEM
                               ELSE IF sends = {-1} THEN -EACCES
                               ELSE 0)
                         /\ news = {NULL} => sends = {}
                         /\ news # {NULL} => Cardinality(sends) = 1
               /\ Cardinality(early) = (IF ev[e].authRet < 0 THEN 1 ELSE 0)
               /\ ev[e].authRet < 0 => ChannelsClosed(e) = 1

AllocationFailedAndClosed ==
    \E e1 \in Events, e2 \in Events :
        /\ ev[e1].authCalled /\ ev[e1].authRet = -ENOMEM /\ ChannelsClosed(e1) = 1
        /\ ev[e2].authCalled /\ ev[e2].authRet = -EACCES /\ ChannelsClosed(e2) = 1

\* C19: a connect_event_cb called with err < 0 makes no call at all (no
\* registry, socket, authorization or cancellation call), allocates no
\* authorization_data and arms no continuation.
FailedAcceptHasNoEffect ==
    \A e \in Events :
        (ev[e].done /\ ev[e].err < 0) =>
            /\ ev[e].trace = << >>
            /\ ev[e].auth = NoAuth
            /\ ev[e].pend = {} /\ ev[e].fired = << >>
            /\ ~ev[e].authCalled

AcceptFailed ==
    \E e \in Events : ev[e].done /\ ev[e].err < 0 /\ ev[e].psm = L2CAP_PSM_HIDP_INTR

\* C20: an accepted Interrupt connection whose registration fails gets no
\* unplug byte and exactly one close; authorize_device is not called, no
\* authorization_data is allocated and no continuation is armed or runs.
InterruptRejectOnlyCloses ==
    \A e \in Events :
        (Accepted(e, L2CAP_PSM_HIDP_INTR) /\ RegFailed(e)) =>
            /\ Count(ev[e].trace, "write") = 0
            /\ Count(ev[e].trace, "close") = 1
            /\ Len(ev[e].trace) = 2
            /\ ~ev[e].authCalled
            /\ ev[e].auth = NoAuth
            /\ ev[e].pend = {} /\ ev[e].fired = << >>

InterruptConnectionRejected ==
    \E e \in Events :
        Accepted(e, L2CAP_PSM_HIDP_INTR) /\ RegFailed(e) /\ Count(ev[e].trace, "close") = 1

====
